---- MODULE Spec2Model ----
(***************************************************************************)
(* Model of the CKB transaction signer of token-core (tcx-ckb):            *)
(*   - Serializer (src/tcx-ckb/src/serializer.rs): the molecule encoders   *)
(*   - CkbTxSigner and Keystore::sign_transaction                          *)
(*     (src/tcx-ckb/src/signer.rs)                                         *)
(* Byte strings are sequences of naturals in 0..255.  Rust indices are     *)
(* 0-based; the model's sequences are 1-based, so the Rust index i is the  *)
(* model index i + 1.  An Option<T> is a sequence of length 0 (None) or 1  *)
(* (Some).                                                                 *)
(***************************************************************************)
EXTENDS Integers, Sequences, FiniteSets, TLC

VARIABLES
    tx,               \* the TxInput handed to sign_transaction (borrowed, &TxInput)
    pc,               \* position of the call
    input_cells,      \* Vec<&CachedCell>: for each input, the index of its cell in tx.cached_cells
    grouped_scripts,  \* HashMap<Vec<u8>, Vec<usize>>: lock hash -> indices
    pending,          \* keys of grouped_scripts the for-loop has not visited yet
    raw_witnesses,    \* the local copy that is signed
    signer_log,       \* the calls made to ChainSigner::sign_recoverable_hash, in order
    result,           \* "pending", "ok", "err" or "panic"
    error,            \* the error returned ("" when none)
    output,           \* Option<TxOutput>
    values,           \* argument of Serializer::serialize_dynamic_vec
    encoded,          \* Option<Vec<u8>>: its return value
    vec_pc            \* position of the serializer call

vars == <<tx, pc, input_cells, grouped_scripts, pending, raw_witnesses,
          signer_log, result, error, output, values, encoded, vec_pc>>

signVars == <<tx, pc, input_cells, grouped_scripts, pending, raw_witnesses,
              signer_log, result, error, output>>

vecVars == <<values, encoded, vec_pc>>

----------------------------------------------------------------------------
(* Bounds of the model *)

MaxInputs == 3

MaxWitnesses == 3

MaxItems == 3

----------------------------------------------------------------------------
(* Helpers on sequences *)

RECURSIVE Flatten(_)
Flatten(seqs) ==
    IF seqs = <<>> THEN <<>> ELSE Head(seqs) \o Flatten(Tail(seqs))

RECURSIVE SumSeq(_)
SumSeq(s) == IF s = <<>> THEN 0 ELSE Head(s) + SumSeq(Tail(s))

Bytes(n, v) == [i \in 1..n |-> v]

SeqsUpTo(S, n) == UNION {[1..k -> S] : k \in 0..n}

MinOf(S) == CHOOSE m \in S : \A o \in S : m <= o

\* little-endian bytes of value, n of them (byteorder::LittleEndian)
RECURSIVE LittleEndian(_, _)
LittleEndian(value, n) ==
    IF n = 0 THEN <<>>
    ELSE <<value % 256>> \o LittleEndian(value \div 256, n - 1)

\* the value a little-endian byte string denotes
RECURSIVE FromLittleEndian(_)
FromLittleEndian(b) ==
    IF b = <<>> THEN 0 ELSE Head(b) + 256 * FromLittleEndian(Tail(b))

----------------------------------------------------------------------------
(* Serializer.  The lengths of the model stay far below 2^32, where the    *)
(* `as u32` casts and the u32 additions of the source are exact.           *)

RECURSIVE offsets_from(_, _)
offsets_from(total, element_lengths) ==
    IF element_lengths = <<>> THEN <<>>
    ELSE <<total>> \o offsets_from(total + Head(element_lengths), Tail(element_lengths))

\* a faulty variant: offsets measured from the end of the header's first word
calculate_offsets_body_relative(element_lengths) ==
    LET header_length == 4 + 4 * Len(element_lengths)
    IN  [total   |-> header_length + SumSeq(element_lengths),
         offsets |-> offsets_from(4 * Len(element_lengths), element_lengths)]

calculate_offsets(element_lengths) ==
    LET header_length == 4 + 4 * Len(element_lengths)
    IN  [total   |-> header_length + SumSeq(element_lengths),
         offsets |-> offsets_from(header_length, element_lengths)]

serialize_u32(value) == LittleEndian(value, 4)

serialize_u64(value) == LittleEndian(value, 8)

serialize_dynamic_vec(vs) ==
    LET body            == Flatten(vs)
        element_lengths == [i \in 1..Len(vs) |-> Len(vs[i])]
        offsets         == calculate_offsets(element_lengths)
    IN  serialize_u32(offsets.total)
          \o Flatten([i \in 1..Len(vs) |-> serialize_u32(offsets.offsets[i])])
          \o body

serialize_fixed_vec(vs) ==
    LET body       == Flatten(vs)
        total_size == SumSeq([i \in 1..Len(vs) |-> Len(vs[i])])
    IN  serialize_u32(total_size) \o body

----------------------------------------------------------------------------
(* The serializer called on its own *)

ItemValues == {<<>>, <<2, 0, 0, 0, 18, 52>>, <<0, 0, 0, 0>>, <<1, 0, 0, 0, 137>>}

VecInputs == SeqsUpTo(ItemValues, MaxItems)

InitVec ==
    /\ values \in VecInputs
    /\ encoded = <<>>
    /\ vec_pc = "call"

\* Serializer::serialize_dynamic_vec(&values) is called and returns
SerializeDynamicVec ==
    /\ vec_pc = "call"
    /\ encoded' = <<serialize_dynamic_vec(values)>>
    /\ vec_pc' = "returned"
    /\ UNCHANGED values

----------------------------------------------------------------------------
(* Data of the signer *)

SIGNATURE_PLACEHOLDER_LEN == 65

TX_HASH_LEN == 32

SIGNATURE_PLACEHOLDER == Bytes(SIGNATURE_PLACEHOLDER_LEN, 0)

\* Script::to_hash: the chain's script hash, here the script itself under a
\* tag (deterministic and collision free); a hash_type other than "data" or
\* "type" cannot be serialized and makes it fail
to_hash(script) ==
    IF script.hash_type \in {"data", "type"}
    THEN [err |-> "", hash |-> <<"blake2b_256", script.args, script.hash_type>>]
    ELSE [err |-> "InvalidHashType", hash |-> <<>>]

\* Witness::serialize: the table of the three fields, a non-empty field as a
\* length-prefixed byte vector and an empty one as no bytes
serialize_field(x) == IF Len(x) > 0 THEN serialize_fixed_vec(<<x>>) ELSE <<>>

serialize(w) ==
    serialize_dynamic_vec(<<serialize_field(w.lock),
                            serialize_field(w.input_type),
                            serialize_field(w.output_type)>>)

\* new_blake2b, update, finalize: the digest of a stream of updates, here the
\* concatenated stream itself under a tag (equal digests iff equal streams)
blake2b(updates) == [blake2b |-> Flatten(updates)]

\* what ChainSigner::sign_recoverable_hash may return: a 65-byte recoverable
\* signature, or an error of its own
sign_recoverable_hash_results ==
    {[sig |-> Bytes(65, 1), err |-> ""],
     [sig |-> Bytes(65, 2), err |-> ""],
     [sig |-> <<>>, err |-> "KeyLocked"],
     [sig |-> <<>>, err |-> "SignFailed"]}

----------------------------------------------------------------------------
(* The transactions signed *)

Script1 == [args |-> "edb5c73f", hash_type |-> "type"]

Script2 == [args |-> "e2fa82e7", hash_type |-> "type"]

ScriptBad == [args |-> "edb5c73f", hash_type |-> ""]

OutPointValues == {[tx_hash |-> "e3c3", index |-> 0],
                   [tx_hash |-> "e3c3", index |-> 1],
                   [tx_hash |-> "77aa", index |-> 0]}

CachedCell(point, lock, path) ==
    [out_point |-> point, lock |-> lock, derive_path |-> path]

\* the cached-cell snapshots handed in: the layout of the repository's test
\* (two cells sharing one lock script around a cell with another); a list
\* with a cell without out_point, two cells for one out point and a cell
\* without lock script; a list with a lock script that cannot be hashed
CachedCellLists ==
    {<<CachedCell(<<[tx_hash |-> "e3c3", index |-> 0]>>, <<Script1>>, ""),
       CachedCell(<<[tx_hash |-> "e3c3", index |-> 1]>>, <<Script2>>, "m/44'/309'/0'/0/1"),
       CachedCell(<<[tx_hash |-> "77aa", index |-> 0]>>, <<Script1>>, "m/44'/309'/0'/0/2")>>,
     <<CachedCell(<<>>, <<Script1>>, ""),
       CachedCell(<<[tx_hash |-> "e3c3", index |-> 0]>>, <<Script2>>, ""),
       CachedCell(<<[tx_hash |-> "e3c3", index |-> 0]>>, <<Script1>>, "m/44'/309'/0'/0/0"),
       CachedCell(<<[tx_hash |-> "e3c3", index |-> 1]>>, <<>>, "m/44'/309'/0'/0/1")>>,
     <<CachedCell(<<[tx_hash |-> "e3c3", index |-> 0]>>, <<ScriptBad>>, ""),
       CachedCell(<<[tx_hash |-> "e3c3", index |-> 1]>>, <<Script1>>, "m/44'/309'/0'/0/1")>>}

EmptyWitness == [lock |-> <<>>, input_type |-> <<>>, output_type |-> <<>>]

WitnessValues == {EmptyWitness,
                  [lock |-> <<9, 9>>, input_type |-> <<7>>, output_type |-> <<5, 6>>]}

TxHashValues == {Bytes(32, 74), Bytes(31, 74)}

CellInputValues == {[previous_output |-> <<>>]}
                     \cup {[previous_output |-> <<p>>] : p \in OutPointValues}

TxInputs ==
    [tx_hash      : TxHashValues,
     inputs       : SeqsUpTo(CellInputValues, MaxInputs),
     witnesses    : SeqsUpTo(WitnessValues, MaxWitnesses),
     cached_cells : CachedCellLists]

----------------------------------------------------------------------------
(* Keystore::sign_transaction: resolution of the inputs *)

\* a faulty variant: the out point is compared by index alone
OutPointMatchesIndexOnly(point, x) == point.index = x.index

OutPointMatches(point, x) ==
    point.index = x.index /\ point.tx_hash = x.tx_hash

\* find_cache_cell: the first cached cell with an out_point equal to x, as
\* its index in cached_cells; 0 stands for Err(CellInputNotCached)
find_cache_cell(cached_cells, x) ==
    LET found == {y \in DOMAIN cached_cells :
                     /\ cached_cells[y].out_point # <<>>
                     /\ OutPointMatches(cached_cells[y].out_point[1], x)}
    IN  IF found = {} THEN 0 ELSE MinOf(found)

\* the loop over tx.inputs: the cells resolved, or the error of the first
\* input that cannot be resolved
RECURSIVE resolve_inputs(_, _, _)
resolve_inputs(t, n, cells) ==
    IF n > Len(t.inputs) THEN [err |-> "", cells |-> cells]
    ELSE LET x == t.inputs[n] IN
         IF x.previous_output = <<>>
         THEN [err |-> "InvalidOutputPoint", cells |-> cells]
         ELSE LET y == find_cache_cell(t.cached_cells, x.previous_output[1]) IN
              IF y = 0
              THEN [err |-> "CellInputNotCached", cells |-> cells]
              ELSE resolve_inputs(t, n + 1, Append(cells, y))

----------------------------------------------------------------------------
(* CkbTxSigner *)

\* a faulty variant: a later index is put in front of its group
group_insert_front(map, hash, i) ==
    IF hash \in DOMAIN map
    THEN [map EXCEPT ![hash] = <<i>> \o @]
    ELSE map @@ (hash :> <<i>>)

\* the body of group_script's loop for a cell with a lock script
group_insert(map, hash, i) ==
    IF hash \in DOMAIN map
    THEN [map EXCEPT ![hash] = Append(@, i)]
    ELSE map @@ (hash :> <<i>>)

RECURSIVE group_script_from(_, _, _)
group_script_from(cells, i, map) ==
    IF i > Len(cells) THEN [err |-> "", map |-> map]
    ELSE LET item == cells[i] IN
         IF item.lock = <<>>
         THEN group_script_from(cells, i + 1, map)
         ELSE LET hash == to_hash(item.lock[1]) IN
              IF hash.err # ""
              THEN [err |-> hash.err, map |-> map]
              ELSE group_script_from(cells, i + 1, group_insert(map, hash.hash, i))

group_script(cells) == group_script_from(cells, 1, <<>>)

\* the keys `grouped_scripts.iter()` may yield next: std's HashMap iterates
\* in an order it does not specify, so any key not yet visited
iter_next(keys) == keys

\* a faulty variant: the extra witnesses are left out of the group
extra_witnesses_none(witnesses, n_cells) == <<>>

\* &witnesses[input_cells.len()..], taken when witnesses.len() > input_cells.len()
extra_witnesses(witnesses, n_cells) ==
    IF Len(witnesses) > n_cells
    THEN SubSeq(witnesses, n_cells + 1, Len(witnesses))
    ELSE <<>>

\* the witness hashed in place of the group's first one
placeholder_witness(first) ==
    [lock        |-> SIGNATURE_PLACEHOLDER,
     input_type  |-> first.input_type,
     output_type |-> first.output_type]

\* sign_witness_group up to s.finalize: the digest of a non-empty group
witness_group_digest(tx_hash, witness_group) ==
    LET serialized_empty_witness == serialize(placeholder_witness(witness_group[1]))
        rest == Tail(witness_group)
    IN  blake2b(<<tx_hash,
                  serialize_u64(Len(serialized_empty_witness)),
                  serialized_empty_witness>>
                \o Flatten([k \in 1..Len(rest) |->
                              <<serialize_u64(Len(serialize(rest[k]))),
                                serialize(rest[k])>>]))

\* a faulty variant: an empty derive path is handed over as Some("")
opt_path_always_some(path) == <<path>>

opt_path(path) == IF path # "" THEN <<path>> ELSE <<>>

\* a faulty variant: the signature is appended to the placeholder
signed_lock_appended(placeholder, sig) == placeholder \o sig

\* empty_witness.lock = sign_recoverable_hash(..)?
signed_lock(placeholder, sig) == sig

\* a faulty variant: every error of the signer becomes one error of the core
signer_error_translated(err) == "SignError"

\* the `?` on the signer's result: the error as it came
signer_error(err) == err

\* a faulty variant: the signed witness is stored at the group's last index
store_index_last(indices) == indices[Len(indices)]

\* raw_witnesses[item.1[0]] = signed_witness
store_index(indices) == indices[1]

\* a faulty variant: a tx_hash shorter than 32 bytes is let through
tx_hash_valid_at_most(tx_hash) == Len(tx_hash) <= TX_HASH_LEN

\* tx_hash must be 256 bit length
tx_hash_valid(tx_hash) == Len(tx_hash) = TX_HASH_LEN

\* a faulty variant: sign_transaction leaves the check of the witnesses to
\* sign_witnesses
required_witness_unchecked(witnesses) == FALSE

\* tx.witnesses.len() == 0 in sign_transaction
required_witness_missing(witnesses) == Len(witnesses) = 0

\* the cached cells the inputs resolved to: input_cells, dereferenced
Cells == [i \in 1..Len(input_cells) |-> tx.cached_cells[input_cells[i]]]

----------------------------------------------------------------------------
(* The call Keystore::sign_transaction(symbol, address, &tx) *)

Init ==
    /\ tx \in TxInputs
    /\ pc = "sign_transaction"
    /\ input_cells = <<>>
    /\ grouped_scripts = <<>>
    /\ pending = {}
    /\ raw_witnesses = <<>>
    /\ signer_log = <<>>
    /\ result = "pending"
    /\ error = ""
    /\ output = <<>>
    /\ values = <<>>
    /\ encoded = <<>>
    /\ vec_pc = "idle"

\* return Err(e)
Fail(e) ==
    /\ result' = "err"
    /\ error' = e
    /\ output' = <<>>
    /\ pc' = "done"

\* sign_transaction from its entry to the construction of the CkbTxSigner
SignTransaction ==
    /\ pc = "sign_transaction"
    /\ IF required_witness_missing(tx.witnesses)
       THEN Fail("RequiredWitness") /\ UNCHANGED input_cells
       ELSE LET r == resolve_inputs(tx, 1, <<>>) IN
            IF r.err # ""
            THEN Fail(r.err) /\ UNCHANGED input_cells
            ELSE /\ input_cells' = r.cells
                 /\ pc' = "sign_witnesses"
                 /\ UNCHANGED <<result, error, output>>
    /\ UNCHANGED <<tx, grouped_scripts, pending, raw_witnesses, signer_log>>
    /\ UNCHANGED vecVars

\* sign_witnesses from its entry to the copy of the witnesses
SignWitnesses ==
    /\ pc = "sign_witnesses"
    /\ IF ~tx_hash_valid(tx.tx_hash)
       THEN Fail("InvalidTxHash") /\ UNCHANGED <<grouped_scripts, pending, raw_witnesses>>
       ELSE IF Len(tx.witnesses) = 0
       THEN Fail("WitnessEmpty") /\ UNCHANGED <<grouped_scripts, pending, raw_witnesses>>
       ELSE LET g == group_script(Cells) IN
            IF g.err # ""
            THEN Fail(g.err) /\ UNCHANGED <<grouped_scripts, pending, raw_witnesses>>
            ELSE /\ grouped_scripts' = g.map
                 /\ pending' = DOMAIN g.map
                 /\ raw_witnesses' = tx.witnesses
                 /\ pc' = "sign_group"
                 /\ UNCHANGED <<result, error, output>>
    /\ UNCHANGED <<tx, input_cells, signer_log>>
    /\ UNCHANGED vecVars

\* one turn of the loop over grouped_scripts, for the group under `key`:
\* the witnesses of the group are collected (an index past the end of
\* witnesses panics), sign_witness_group hashes them and calls the signer,
\* and the signed witness is stored
SignGroup(key) ==
    /\ pc = "sign_group"
    /\ key \in iter_next(pending)
    /\ LET indices == grouped_scripts[key] IN
       IF \E k \in 1..Len(indices) : indices[k] > Len(tx.witnesses)
       THEN /\ result' = "panic"
            /\ pc' = "done"
            /\ UNCHANGED <<error, output, pending, raw_witnesses, signer_log>>
       ELSE LET ws   == [k \in 1..Len(indices) |-> tx.witnesses[indices[k]]]
                           \o extra_witnesses(tx.witnesses, Len(input_cells))
                path == Cells[indices[1]].derive_path
            IN  IF Len(ws) = 0
                THEN Fail("WitnessGroupEmpty")
                       /\ UNCHANGED <<pending, raw_witnesses, signer_log>>
                ELSE LET empty_witness == placeholder_witness(ws[1]) IN
                     \E r \in sign_recoverable_hash_results :
                        /\ signer_log' = Append(signer_log,
                               [key     |-> key,
                                indices |-> indices,
                                digest  |-> witness_group_digest(tx.tx_hash, ws),
                                path    |-> opt_path(path),
                                ret     |-> r])
                        /\ IF r.err # ""
                           THEN Fail(signer_error(r.err))
                                  /\ UNCHANGED <<pending, raw_witnesses>>
                           ELSE /\ raw_witnesses' =
                                     [raw_witnesses EXCEPT ![store_index(indices)] =
                                        [empty_witness EXCEPT
                                           !.lock = signed_lock(empty_witness.lock, r.sig)]]
                                /\ pending' = pending \ {key}
                                /\ UNCHANGED <<pc, result, error, output>>
    /\ UNCHANGED <<tx, input_cells, grouped_scripts>>
    /\ UNCHANGED vecVars

\* Ok(raw_witnesses), and the TxOutput built from it
Return ==
    /\ pc = "sign_group"
    /\ pending = {}
    /\ output' = <<[tx_hash |-> tx.tx_hash, witnesses |-> raw_witnesses]>>
    /\ result' = "ok"
    /\ pc' = "done"
    /\ UNCHANGED <<tx, input_cells, grouped_scripts, pending, raw_witnesses,
                   signer_log, error>>
    /\ UNCHANGED vecVars

Next ==
    \/ SignTransaction
    \/ SignWitnesses
    \/ \E key \in pending : SignGroup(key)
    \/ Return

Spec == Init /\ [][Next]_vars

----------------------------------------------------------------------------
(* The call Serializer::serialize_dynamic_vec(&values) *)

InitSerializer ==
    /\ InitVec
    /\ tx = [tx_hash |-> <<>>, inputs |-> <<>>, witnesses |-> <<>>, cached_cells |-> <<>>]
    /\ pc = "idle"
    /\ input_cells = <<>>
    /\ grouped_scripts = <<>>
    /\ pending = {}
    /\ raw_witnesses = <<>>
    /\ signer_log = <<>>
    /\ result = "pending"
    /\ error = ""
    /\ output = <<>>

NextSerializer == SerializeDynamicVec /\ UNCHANGED signVars

SpecSerializer == InitSerializer /\ [][NextSerializer]_vars

----------------------------------------------------------------------------
(* Properties of the serializer *)

\* the u32 at byte position `at` (0-based) of an encoding
WordAt(e, at) == FromLittleEndian(SubSeq(e, at + 1, at + 4))

\* the total length of the items before the i-th
LengthBefore(items, i) == SumSeq([k \in 1..(i - 1) |-> Len(items[k])])

\* C9: serialize_dynamic_vec of n byte strings returns 4 + 4n header bytes
\* followed by the items in order; the first little-endian u32 is the length
\* of the whole encoding, 4 + 4n + the sum of the item lengths, and the i-th
\* u32 after it is 4 + 4n + the length of the items before the i-th; so the
\* offsets never decrease, each lies within the encoding, each item sits at
\* its offset, and the empty list encodes to 04 00 00 00 (the one-item vector
\* of the repository's test to 0e00000008000000020000001234)
C9_DynamicVecLayout ==
    vec_pc = "returned" =>
        LET e == encoded[1]
            n == Len(values)
            header == 4 + 4 * n
        IN  /\ Len(e) = header + LengthBefore(values, n + 1)
            /\ WordAt(e, 0) = Len(e)
            /\ \A i \in 1..n :
                  /\ WordAt(e, 4 * i) = header + LengthBefore(values, i)
                  /\ WordAt(e, 4 * i) <= Len(e)
                  /\ i > 1 => WordAt(e, 4 * (i - 1)) <= WordAt(e, 4 * i)
                  /\ SubSeq(e, WordAt(e, 4 * i) + 1, WordAt(e, 4 * i) + Len(values[i]))
                       = values[i]
            /\ SubSeq(e, header + 1, Len(e)) = Flatten(values)
            /\ n = 0 => e = <<4, 0, 0, 0>>
            /\ values = << <<2, 0, 0, 0, 18, 52>> >>
                  => e = <<14, 0, 0, 0, 8, 0, 0, 0, 2, 0, 0, 0, 18, 52>>

\* C9 witness: a vector of three items, the first two not empty, is encoded
C9_Witness ==
    /\ vec_pc = "returned"
    /\ Len(values) = 3
    /\ values[1] # <<>>
    /\ values[2] # <<>>

----------------------------------------------------------------------------
(* Properties of sign_transaction, stated on the transaction handed in *)

InputIndices == 1..Len(tx.inputs)

\* the cached cells whose out_point is the previous_output of input i
MatchingCells(i) ==
    {y \in DOMAIN tx.cached_cells :
        /\ tx.inputs[i].previous_output # <<>>
        /\ tx.cached_cells[y].out_point = tx.inputs[i].previous_output}

\* the inputs that cannot be resolved
Unresolvable == {i \in InputIndices : MatchingCells(i) = {}}

\* the cell input i stands for: the first one that matches
CellOf(i) == tx.cached_cells[MinOf(MatchingCells(i))]

HasLock(i) == CellOf(i).lock # <<>>

LockHash(i) == to_hash(CellOf(i).lock[1]).hash

\* the lock-script hashes of the inputs that have a lock script
LockHashes == {LockHash(i) : i \in {j \in InputIndices : HasLock(j)}}

\* the inputs of the group of a lock-script hash
Members(hash) == {i \in InputIndices : HasLock(i) /\ LockHash(i) = hash}

FirstIndex(hash) == MinOf(Members(hash))

\* input i is the first index of its group
IsFirstIndex(i) == HasLock(i) /\ FirstIndex(LockHash(i)) = i

RECURSIVE Ascending(_)
Ascending(S) ==
    IF S = {} THEN <<>> ELSE <<MinOf(S)>> \o Ascending(S \ {MinOf(S)})

\* the index list of a group: its members in ascending order
IndexList(hash) == Ascending(Members(hash))

\* the witnesses past the inputs, in their order
ExtraWitnesses ==
    [k \in 1..(Len(tx.witnesses) - Len(tx.inputs)) |-> tx.witnesses[Len(tx.inputs) + k]]

\* C1: when the call succeeds the output has as many witnesses as the input
\* and the input's tx_hash; the witness at the first index of a group keeps
\* its input_type and output_type, and every other witness (the later
\* indices of a group, the inputs without lock script, the witnesses past
\* the inputs) is the one handed in
C1_OnlyFirstIndexSigned ==
    result = "ok" =>
        /\ Len(output) = 1
        /\ output[1].tx_hash = tx.tx_hash
        /\ Len(output[1].witnesses) = Len(tx.witnesses)
        /\ \A k \in 1..Len(tx.witnesses) :
              IF k \in InputIndices /\ IsFirstIndex(k)
              THEN /\ output[1].witnesses[k].input_type = tx.witnesses[k].input_type
                   /\ output[1].witnesses[k].output_type = tx.witnesses[k].output_type
              ELSE output[1].witnesses[k] = tx.witnesses[k]

\* C1 witness: a call succeeds for a group of two inputs whose witnesses are
\* not empty, with a non-empty witness past the inputs
C1_Witness ==
    /\ result = "ok"
    /\ Len(tx.witnesses) > Len(tx.inputs)
    /\ tx.witnesses[Len(tx.witnesses)] # EmptyWitness
    /\ \E i, j \in InputIndices :
          /\ i < j
          /\ HasLock(i) /\ HasLock(j) /\ LockHash(i) = LockHash(j)
          /\ tx.witnesses[i] # EmptyWitness
          /\ tx.witnesses[j] # EmptyWitness

\* the updates the digest of a group is made of
LengthPrefixed(w) == <<serialize_u64(Len(serialize(w))), serialize(w)>>

GroupUpdates(hash) ==
    LET list == IndexList(hash)
        P    == serialize([lock        |-> Bytes(65, 0),
                           input_type  |-> tx.witnesses[list[1]].input_type,
                           output_type |-> tx.witnesses[list[1]].output_type])
    IN  <<tx.tx_hash, serialize_u64(Len(P)), P>>
          \o Flatten([j \in 1..(Len(list) - 1) |-> LengthPrefixed(tx.witnesses[list[j + 1]])])
          \o Flatten([k \in 1..Len(ExtraWitnesses) |-> LengthPrefixed(ExtraWitnesses[k])])

\* C2: the digest handed to the signer for a group is the hash of tx_hash,
\* u64(len(P)), P (the first witness of the group with 65 zero bytes as
\* lock), then length and serialization of the group's later witnesses as
\* handed in, in list order, then length and serialization of every witness
\* past the inputs, in order
C2_GroupDigest ==
    \A k \in DOMAIN signer_log :
        signer_log[k].digest = [blake2b |-> Flatten(GroupUpdates(signer_log[k].key))]

\* C2 witness: the signer is called for a group of two inputs, the first
\* with a lock handed in, while a witness past the inputs exists
C2_Witness ==
    \E k \in DOMAIN signer_log :
        /\ Len(IndexList(signer_log[k].key)) = 2
        /\ tx.witnesses[IndexList(signer_log[k].key)[1]].lock # <<>>
        /\ Len(ExtraWitnesses) > 0

\* a precondition of the call fails: no witness, an input that cannot be
\* resolved, a tx_hash that is not 32 bytes long
PreconditionFails ==
    \/ Len(tx.witnesses) = 0
    \/ Unresolvable # {}
    \/ Len(tx.tx_hash) # 32

ValidationErrors ==
    {"InvalidTxHash", "RequiredWitness", "WitnessEmpty", "InvalidOutputPoint",
     "CellInputNotCached"}

\* C3: signing is all or nothing.  No step changes the transaction handed
\* in; a call that ends with an error has no output; a call of which a
\* precondition fails ends with an error; and an error of the signer, for
\* whatever group, is the last thing the signer is asked and is the error of
\* the call, as the signer produced it
C3_AllOrNothing ==
    [][ /\ tx' = tx
        /\ result' = "err" => (output' = <<>> /\ error' # "")
        /\ output' # <<>> => (result' = "ok" /\ error' = "")
        /\ (pc' = "done" /\ PreconditionFails') => result' = "err"
        /\ \A k \in DOMAIN signer_log' :
              signer_log'[k].ret.err # "" =>
                  /\ k = Len(signer_log')
                  /\ result' = "err"
                  /\ error' = signer_log'[k].ret.err
                  /\ output' = <<>>
      ]_vars

\* C3 witness: the signer fails for the second group, after the first group
\* was signed, and the call has ended with the signer's error
C3_Witness ==
    /\ Len(signer_log) = 2
    /\ signer_log[1].ret.err = ""
    /\ signer_log[2].ret.err = "KeyLocked"
    /\ raw_witnesses # tx.witnesses
    /\ result = "err"
    /\ error = "KeyLocked"

\* C4: input validation precedes the signer.  A call that ends in
\* InvalidTxHash, RequiredWitness, WitnessEmpty, InvalidOutputPoint or
\* CellInputNotCached has not called the signer; whenever the signer has
\* been called, tx_hash is 32 bytes long, there is a witness, and every
\* input has a previous_output that a cached cell matches
C4_ValidationBeforeSigner ==
    /\ (result = "err" /\ error \in ValidationErrors) => signer_log = <<>>
    /\ signer_log # <<>> =>
          /\ Len(tx.tx_hash) = 32
          /\ Len(tx.witnesses) > 0
          /\ Unresolvable = {}

\* C4 witness: a call ends in InvalidTxHash although its inputs resolve to
\* cells with lock scripts the signer would have been asked for
C4_Witness ==
    /\ result = "err"
    /\ error = "InvalidTxHash"
    /\ Len(tx.inputs) >= 2
    /\ Unresolvable = {}
    /\ \A i \in InputIndices : HasLock(i)
    /\ signer_log = <<>>

C6_InvalidTxHashWhatever ==
    (pc = "done" /\ Len(tx.tx_hash) # 32) =>
        (result = "err" /\ error = "InvalidTxHash")

\* C6 as amended: a tx_hash that is not 32 bytes long makes the call fail;
\* with InvalidTxHash when there is a witness and every input resolves to a
\* cached cell, and otherwise with the error of the check sign_transaction
\* makes before: RequiredWitness without witnesses, else the error of the
\* first input that cannot be resolved
C6_InvalidTxHashAfterResolution ==
    (pc = "done" /\ Len(tx.tx_hash) # 32) =>
        /\ result = "err"
        /\ error = IF Len(tx.witnesses) = 0 THEN "RequiredWitness"
                   ELSE IF Unresolvable = {} THEN "InvalidTxHash"
                   ELSE IF tx.inputs[MinOf(Unresolvable)].previous_output = <<>>
                        THEN "InvalidOutputPoint"
                        ELSE "CellInputNotCached"

\* C6 witness: a call with a tx_hash of 31 bytes, witnesses and resolved
\* inputs ends in InvalidTxHash
C6_Witness ==
    /\ pc = "done"
    /\ Len(tx.tx_hash) = 31
    /\ Len(tx.inputs) >= 1
    /\ Len(tx.witnesses) >= 1
    /\ error = "InvalidTxHash"

\* the last answer the signer gave for the group of a hash
SignatureFor(hash) ==
    signer_log[CHOOSE k \in DOMAIN signer_log : signer_log[k].key = hash].ret.sig

C8_InputResolution ==
    (Len(tx.witnesses) > 0 /\ pc # "sign_transaction") =>
        IF Unresolvable # {}
        THEN /\ pc = "done"
             /\ result = "err"
             /\ error = IF tx.inputs[MinOf(Unresolvable)].previous_output = <<>>
                        THEN "InvalidOutputPoint"
                        ELSE "CellInputNotCached"
        ELSE /\ Len(input_cells) = Len(tx.inputs)
             /\ \A i \in InputIndices :
                   /\ input_cells[i] \in DOMAIN tx.cached_cells
                   /\ tx.cached_cells[input_cells[i]].out_point
                        = tx.inputs[i].previous_output
             /\ \A hash \in DOMAIN grouped_scripts :
                   \A k \in DOMAIN grouped_scripts[hash] :
                       LET cell == tx.cached_cells[input_cells[grouped_scripts[hash][k]]]
                       IN  cell.lock # <<>> /\ to_hash(cell.lock[1]).hash = hash
             /\ \A k \in DOMAIN signer_log :
                   LET cell == tx.cached_cells[input_cells[signer_log[k].indices[1]]]
                   IN  signer_log[k].path
                         = IF cell.derive_path = "" THEN <<>> ELSE <<cell.derive_path>>

\* C8 witness: the call ends in CellInputNotCached for its second input,
\* after a first input that resolves and before one without previous_output
C8_Witness ==
    /\ result = "err"
    /\ error = "CellInputNotCached"
    /\ Len(tx.inputs) = 3
    /\ MinOf(Unresolvable) = 2
    /\ tx.inputs[2].previous_output # <<>>
    /\ tx.inputs[3].previous_output = <<>>

\* C10: a call that succeeds has asked the signer once for every group:
\* once per lock-script hash of the inputs with a lock script, and not at
\* all without such inputs; each time with the derive path of the cell of
\* the group's first index, an empty path as none; and an error of the
\* signer is the last thing the signer is asked
C10_OncePerGroup ==
    /\ result = "ok" =>
          /\ {signer_log[k].key : k \in DOMAIN signer_log} = LockHashes
          /\ Len(signer_log) = Cardinality(LockHashes)
    /\ \A k \in DOMAIN signer_log :
          /\ signer_log[k].path
               = IF CellOf(FirstIndex(signer_log[k].key)).derive_path = ""
                 THEN <<>>
                 ELSE <<CellOf(FirstIndex(signer_log[k].key)).derive_path>>
          /\ signer_log[k].ret.err # "" => (k = Len(signer_log) /\ pc = "done")
          /\ \A j \in DOMAIN signer_log : j # k => signer_log[j].key # signer_log[k].key

\* C10 witness: a call succeeds after asking the signer twice, once without
\* a derive path and once with one
C10_Witness ==
    /\ result = "ok"
    /\ Len(signer_log) = 2
    /\ \E j, k \in DOMAIN signer_log :
          signer_log[j].path = <<>> /\ signer_log[k].path # <<>>

\* C11: sign_witnesses never reaches past the end of the witnesses: a call
\* with a tx_hash of 32 bytes, a witness and inputs that all resolve (be
\* there more inputs with lock scripts than witnesses) ends with the signed
\* witnesses or with an error, never with an access out of range
C11_NoOutOfRangeAccess ==
    (/\ pc = "done"
     /\ Len(tx.tx_hash) = 32
     /\ Len(tx.witnesses) > 0
     /\ Unresolvable = {})
        => result \in {"ok", "err"}

====
